---- MODULE Spec2Model ----
(***************************************************************************)
(* NerNetwork (deeppavlov/models/ner/network_refactored.py).               *)
(*                                                                         *)
(* Spec        : one run of NerNetwork.__init__, statement group by        *)
(*               statement group, over the constructor arguments.          *)
(* SpecMethods : the instance methods (predict_no_crf, __call__,           *)
(*               train_on_batch, save, load) as functions of the instance  *)
(*               attributes they read and of their arguments.              *)
(*                                                                         *)
(* A tensor is modelled by its last-axis width and by whether the last     *)
(* operation applied to it was the intra-layer variational dropout.        *)
(* The TensorFlow primitives (tf.placeholder, tf.concat, tf.layers.dense)  *)
(* are taken to return normally with their documented shapes.              *)
(***************************************************************************)
EXTENDS Integers, Sequences, FiniteSets, TLC

\* ---------------------------------------------------------------- bounds
MaxLayers == 2      \* longest n_hidden_list
MaxWidth  == 2      \* largest entry of n_hidden_list
MaxBatch  == 2      \* largest batch_size
MaxLen    == 4      \* largest padded length L
MaxCalls  == 2      \* method calls followed per run of SpecMethods

\* ------------------------------------------------------- argument domains
\* The default None of the optional dimensions; a dimension d is <<d>>.
None == <<>>

TokenEmbDim == 4

GRAPH_PARAMS ==
    {"n_filters", "filter_width", "token_embeddings_dim", "char_embeddings_dim",
     "use_char_embeddings", "use_batch_norm", "use_crf", "net_type",
     "char_filter_width", "cell_type"}

RECURSIVE SeqsUpTo(_, _)
SeqsUpTo(S, k) ==
    IF k = 0 THEN {<<>>}
    ELSE LET shorter == SeqsUpTo(S, k - 1)
         IN  shorter \cup {Append(s, x) : s \in {t \in shorter : Len(t) = k - 1}, x \in S}

HiddenLists == {l \in SeqsUpTo(1..MaxWidth, MaxLayers) : Len(l) >= 1}

Configs ==
    [n_tags              : {3},
     char_emb_dim        : {None, <<2>>},
     capitalization_dim  : {None, <<1>>},
     pos_features_dim    : {None, <<3>>},
     net_type            : {"rnn", "cnn", "transformer"},
     cell_type           : {"lstm", "GRU", "srnn"},
     use_cudnn_rnn       : BOOLEAN,
     two_dense_on_top    : BOOLEAN,
     n_hidden_list       : HiddenLists,
     use_crf             : BOOLEAN,
     top_dropout         : BOOLEAN,
     intra_layer_dropout : BOOLEAN,
     l2_reg              : {0, 5}]      \* in tenths: 0.0 and 0.5

VARIABLES
    \* ---- NerNetwork.__init__
    cfg,              \* the constructor arguments
    gpu_present,      \* what check_gpu_existance() answers on this machine
    pc,               \* position in __init__
    attrs,            \* names bound on self
    placeholders,     \* every tf.placeholder created so far
    _xs_placeholders, \* self._xs_placeholders
    _input_features,  \* self._input_features, as records [name, width]
    features,         \* width of tf.concat(self._input_features); 0 before it
    units,            \* the local `units` of __init__ / of the running builder
    n,                \* loop index of the running recurrent builder
    layers,           \* hidden sizes of the recurrent layers applied, in order
    dropped,          \* indices n after which intra-layer dropout was applied
    top,              \* what _build_top saw and produced
    graph,            \* graph nodes / resources created besides placeholders
    err,              \* the exception __init__ ended in
    \* ---- instance methods
    inst,             \* instance attributes the methods read
    mask,             \* the mask of the batch: a sequence of rows of 0/1
    params,           \* version of the model parameters
    opt_steps,        \* optimizer steps executed
    train_calls,      \* train_on_batch calls made
    ncalls,           \* method calls made
    last_call,        \* record describing the last method call and its result
    checkpoint        \* what save has persisted

cvars == <<cfg, gpu_present, pc, attrs, placeholders, _xs_placeholders,
           _input_features, features, units, n, layers, dropped, top, graph, err>>
mvars == <<inst, mask, params, opt_steps, train_calls, ncalls, last_call, checkpoint>>
vars  == <<cvars, mvars>>

\* ------------------------------------------------------------ values
Unbound == [bound |-> FALSE, width |-> 0, intra_dropped |-> FALSE]
Tensor(w, d) == [bound |-> TRUE, width |-> w, intra_dropped |-> d]

NoError == [type |-> "none", names |-> {}]
\* An exception: its type and the constructor arguments its message names.
Exc(t, names) == [type |-> t, names |-> names]

NoTop == [built |-> FALSE, in_width |-> 0, n_hididden |-> 0, dense |-> FALSE,
          dense_in |-> 0, dense_out |-> 0, logits |-> 0]

NoCall == [op |-> "none", ret |-> "none", err |-> "none", y_pred |-> <<>>,
           differs |-> {}, saved_params |-> 0]

Last(s) == s[Len(s)]

\* str.lower() on the cell-type strings of the model.
lower(s) ==
    CASE s = "GRU"  -> "gru"
      [] s = "LSTM" -> "lstm"
      [] OTHER      -> s

RECURSIVE SumWidths(_)
SumWidths(fs) == IF fs = <<>> THEN 0 ELSE fs[1].width + SumWidths(Tail(fs))

\* tf.concat of a list of tensors along the last axis.
concat(ws) == SumWidths([i \in 1..Len(ws) |-> [width |-> ws[i]]])

MethodsIdle ==
    /\ inst = [_use_crf |-> FALSE]
    /\ mask = <<>>
    /\ params = 0
    /\ opt_steps = 0
    /\ train_calls = 0
    /\ ncalls = 0
    /\ last_call = NoCall
    /\ checkpoint = {}

\* ---------------------------------------------------------------- __init__
Init ==
    /\ cfg \in Configs
    /\ gpu_present \in BOOLEAN
    /\ pc = "init"
    /\ attrs = {}
    /\ placeholders = {}
    /\ _xs_placeholders = <<>>
    /\ _input_features = <<>>
    /\ features = 0
    /\ units = Unbound
    /\ n = 0
    /\ layers = <<>>
    /\ dropped = {}
    /\ top = NoTop
    /\ graph = {}
    /\ err = NoError
    /\ MethodsIdle

Raise(e) ==
    /\ pc' = "raised"
    /\ err' = e

\* lines 44-47, 97-100
_build_training_placeholders ==
    /\ pc = "init"
    /\ placeholders' = placeholders \cup {"learning_rate", "dropout", "is_training", "y_ph"}
    /\ attrs' = attrs \cup {"learning_rate_ph", "_dropout_ph", "training_ph",
                            "_xs_placeholders", "_y_ph", "_input_features"}
    /\ _xs_placeholders' = <<>>
    /\ _input_features' = <<>>
    /\ pc' = "word_embeddings"
    /\ UNCHANGED <<cfg, gpu_present, features, units, n, layers, dropped, top, graph, err, mvars>>

\* lines 52, 102-108
_build_word_embeddings ==
    /\ pc = "word_embeddings"
    /\ placeholders' = placeholders \cup {"token_indices_ph"}
    /\ _xs_placeholders' = Append(_xs_placeholders, "token_indices_ph")
    /\ _input_features' = Append(_input_features, [name |-> "emb", width |-> TokenEmbDim])
    /\ pc' = "mask"
    /\ UNCHANGED <<cfg, gpu_present, attrs, features, units, n, layers, dropped, top, graph, err, mvars>>

\* lines 55, 110-113
_build_mask ==
    /\ pc = "mask"
    /\ placeholders' = placeholders \cup {"Mask_ph"}
    /\ _xs_placeholders' = Append(_xs_placeholders, "Mask_ph")
    /\ pc' = "char_embeddings"
    /\ UNCHANGED <<cfg, gpu_present, attrs, _input_features, features, units, n, layers,
                   dropped, top, graph, err, mvars>>

\* lines 58-59, 115-117: the placeholder is created and the sub-network
\* called; nothing is appended to either list.
_build_char_embeddings ==
    /\ pc = "char_embeddings"
    /\ cfg.char_emb_dim # None
    /\ placeholders' = placeholders \cup {"Char_ph"}
    /\ graph' = graph \cup {"character_embedding_network"}
    /\ pc' = "capitalization"
    /\ UNCHANGED <<cfg, gpu_present, attrs, _xs_placeholders, _input_features, features,
                   units, n, layers, dropped, top, err, mvars>>

\* line 58, condition false
SkipCharEmbeddings ==
    /\ pc = "char_embeddings"
    /\ cfg.char_emb_dim = None
    /\ pc' = "capitalization"
    /\ UNCHANGED <<cfg, gpu_present, attrs, placeholders, _xs_placeholders, _input_features,
                   features, units, n, layers, dropped, top, graph, err, mvars>>

\* lines 62-63, 119-122
_build_capitalization ==
    /\ pc = "capitalization"
    /\ cfg.capitalization_dim # None
    /\ placeholders' = placeholders \cup {"Capitalization_ph"}
    /\ _xs_placeholders' = Append(_xs_placeholders, "Capitalization_ph")
    /\ _input_features' = Append(_input_features,
                                 [name |-> "Capitalization_ph", width |-> cfg.capitalization_dim[1]])
    /\ pc' = "pos"
    /\ UNCHANGED <<cfg, gpu_present, attrs, features, units, n, layers, dropped, top, graph, err, mvars>>

\* line 62, condition false
SkipCapitalization ==
    /\ pc = "capitalization"
    /\ cfg.capitalization_dim = None
    /\ pc' = "pos"
    /\ UNCHANGED <<cfg, gpu_present, attrs, placeholders, _xs_placeholders, _input_features,
                   features, units, n, layers, dropped, top, graph, err, mvars>>

\* lines 66-67, 124-127
_build_pos ==
    /\ pc = "pos"
    /\ cfg.pos_features_dim # None
    /\ placeholders' = placeholders \cup {"POS_ph"}
    /\ _xs_placeholders' = Append(_xs_placeholders, "POS_ph")
    /\ _input_features' = Append(_input_features,
                                 [name |-> "POS_ph", width |-> cfg.pos_features_dim[1]])
    /\ pc' = "concat"
    /\ UNCHANGED <<cfg, gpu_present, attrs, features, units, n, layers, dropped, top, graph, err, mvars>>

\* line 66, condition false
SkipPos ==
    /\ pc = "pos"
    /\ cfg.pos_features_dim = None
    /\ pc' = "concat"
    /\ UNCHANGED <<cfg, gpu_present, attrs, placeholders, _xs_placeholders, _input_features,
                   features, units, n, layers, dropped, top, graph, err, mvars>>

\* line 69
ConcatFeatures ==
    /\ pc = "concat"
    /\ features' = SumWidths(_input_features)
    /\ pc' = "encoder"
    /\ UNCHANGED <<cfg, gpu_present, attrs, placeholders, _xs_placeholders, _input_features,
                   units, n, layers, dropped, top, graph, err, mvars>>

\* ------------------------------------------------ collaborators (tf_layers)
\* check_gpu_existance(): whether this machine has a usable GPU.
check_gpu_existance == gpu_present

\* cudnn_bi_lstm / cudnn_bi_gru(units, n_hidden): the forward and the
\* backward outputs, each n_hidden wide.
cudnn_bi(n_hidden) == <<n_hidden, n_hidden>>

\* bi_rnn(units, n_hidden, cell_type): the forward and the backward
\* outputs, each n_hidden wide; only "lstm" and "gru" are cell types.
bi_rnn_accepts(cell_type) == cell_type \in {"lstm", "gru"}
bi_rnn(n_hidden) == <<n_hidden, n_hidden>>

\* stacked_cnn(units, n_hidden_list, ...): one convolution per entry; the
\* output has the width of the last one.
stacked_cnn(n_hidden_list) == Last(n_hidden_list)

\* variational_dropout(units, keep_prob): same shape.
variational_dropout(t) == Tensor(t.width, TRUE)

\* ------------------------------------------------------------ the encoder
\* line 142 and line 150: dropout after layer n of a list of length len
IntraDropout(intra_layer_dropout, idx, len) == intra_layer_dropout /\ idx # len - 1

\* line 75
CudnnL2ConflictA(l2_reg) == FALSE
CudnnL2Conflict(l2_reg) == l2_reg > 0

\* lines 73-76: raise Warning('cuDNN RNN are not l2 regularizable')
RaiseCudnnL2 ==
    /\ pc = "encoder"
    /\ cfg.net_type = "rnn"
    /\ cfg.use_cudnn_rnn
    /\ CudnnL2Conflict(cfg.l2_reg)
    /\ Raise(Exc("Warning", {}))
    /\ UNCHANGED <<cfg, gpu_present, attrs, placeholders, _xs_placeholders, _input_features,
                   features, units, n, layers, dropped, top, graph, mvars>>

\* lines 73-77: the call of _build_cudnn_rnn; its parameter `units` is features
EnterCudnnRnn ==
    /\ pc = "encoder"
    /\ cfg.net_type = "rnn"
    /\ cfg.use_cudnn_rnn
    /\ ~CudnnL2Conflict(cfg.l2_reg)
    /\ units' = Tensor(features, FALSE)
    /\ pc' = "cudnn_check_gpu"
    /\ UNCHANGED <<cfg, gpu_present, attrs, placeholders, _xs_placeholders, _input_features,
                   features, n, layers, dropped, top, graph, err, mvars>>

\* lines 130-131
CudnnNoGpu ==
    /\ pc = "cudnn_check_gpu"
    /\ ~check_gpu_existance
    /\ Raise(Exc("RuntimeError", {}))
    /\ UNCHANGED <<cfg, gpu_present, attrs, placeholders, _xs_placeholders, _input_features,
                   features, units, n, layers, dropped, top, graph, mvars>>

\* lines 130, 133: the GPU exists, the loop starts
CudnnGpuOk ==
    /\ pc = "cudnn_check_gpu"
    /\ check_gpu_existance
    /\ n' = 0
    /\ pc' = "cudnn_loop"
    /\ UNCHANGED <<cfg, gpu_present, attrs, placeholders, _xs_placeholders, _input_features,
                   features, units, layers, dropped, top, graph, err, mvars>>

\* lines 133-140: the cell type of an iteration is neither lstm nor gru
CudnnWrongCell ==
    /\ pc = "cudnn_loop"
    /\ n < Len(cfg.n_hidden_list)
    /\ lower(cfg.cell_type) \notin {"lstm", "gru"}
    /\ Raise(Exc("RuntimeError", {"cell_type"}))
    /\ UNCHANGED <<cfg, gpu_present, attrs, placeholders, _xs_placeholders, _input_features,
                   features, units, n, layers, dropped, top, graph, mvars>>

\* line 144: where the body of _build_cudnn_rnn's loop goes after layer n.
\* `return units` is indented into the for body, so the builder returns.
CudnnAfterLayer(idx) == "top"

\* lines 133-144: one iteration of the loop of _build_cudnn_rnn
CudnnLayer ==
    /\ pc = "cudnn_loop"
    /\ n < Len(cfg.n_hidden_list)
    /\ lower(cfg.cell_type) \in {"lstm", "gru"}
    /\ LET n_hidden == cfg.n_hidden_list[n + 1]
           out      == Tensor(concat(cudnn_bi(n_hidden)), FALSE)
           drop     == IntraDropout(cfg.intra_layer_dropout, n, Len(cfg.n_hidden_list))
       IN  /\ units' = IF drop THEN variational_dropout(out) ELSE out
           /\ dropped' = IF drop THEN dropped \cup {n} ELSE dropped
           /\ layers' = Append(layers, n_hidden)
           /\ graph' = graph \cup {"rnn_layer"}
    /\ n' = n + 1
    /\ pc' = CudnnAfterLayer(n)
    /\ UNCHANGED <<cfg, gpu_present, attrs, placeholders, _xs_placeholders, _input_features,
                   features, top, err, mvars>>

\* lines 73, 78-79: the call of _build_rnn
EnterRnn ==
    /\ pc = "encoder"
    /\ cfg.net_type = "rnn"
    /\ ~cfg.use_cudnn_rnn
    /\ units' = Tensor(features, FALSE)
    /\ n' = 0
    /\ pc' = "rnn_loop"
    /\ UNCHANGED <<cfg, gpu_present, attrs, placeholders, _xs_placeholders, _input_features,
                   features, layers, dropped, top, graph, err, mvars>>

\* line 148: bi_rnn rejects the cell type
RnnWrongCell ==
    /\ pc = "rnn_loop"
    /\ n < Len(cfg.n_hidden_list)
    /\ ~bi_rnn_accepts(cfg.cell_type)
    /\ Raise(Exc("RuntimeError", {}))
    /\ UNCHANGED <<cfg, gpu_present, attrs, placeholders, _xs_placeholders, _input_features,
                   features, units, n, layers, dropped, top, graph, mvars>>

\* lines 147-151: one iteration of the loop of _build_rnn
RnnLayer ==
    /\ pc = "rnn_loop"
    /\ n < Len(cfg.n_hidden_list)
    /\ bi_rnn_accepts(cfg.cell_type)
    /\ LET n_hidden == cfg.n_hidden_list[n + 1]
           out      == Tensor(concat(bi_rnn(n_hidden)), FALSE)
           drop     == IntraDropout(cfg.intra_layer_dropout, n, Len(cfg.n_hidden_list))
       IN  /\ units' = IF drop THEN variational_dropout(out) ELSE out
           /\ dropped' = IF drop THEN dropped \cup {n} ELSE dropped
           /\ layers' = Append(layers, n_hidden)
           /\ graph' = graph \cup {"rnn_layer"}
    /\ n' = n + 1
    /\ UNCHANGED <<cfg, gpu_present, pc, attrs, placeholders, _xs_placeholders, _input_features,
                   features, top, err, mvars>>

\* lines 147, 152: the list is exhausted, return units
RnnReturn ==
    /\ pc = "rnn_loop"
    /\ n = Len(cfg.n_hidden_list)
    /\ pc' = "top"
    /\ UNCHANGED <<cfg, gpu_present, attrs, placeholders, _xs_placeholders, _input_features,
                   features, units, n, layers, dropped, top, graph, err, mvars>>

\* lines 80-81, 154-156
_build_cnn ==
    /\ pc = "encoder"
    /\ cfg.net_type = "cnn"
    /\ units' = Tensor(stacked_cnn(cfg.n_hidden_list), FALSE)
    /\ graph' = graph \cup {"stacked_cnn"}
    /\ pc' = "top"
    /\ UNCHANGED <<cfg, gpu_present, attrs, placeholders, _xs_placeholders, _input_features,
                   features, n, layers, dropped, top, err, mvars>>

\* lines 73, 80: neither branch is taken; `units` is not assigned
NoEncoder ==
    /\ pc = "encoder"
    /\ cfg.net_type \notin {"rnn", "cnn"}
    /\ pc' = "top"
    /\ UNCHANGED <<cfg, gpu_present, attrs, placeholders, _xs_placeholders, _input_features,
                   features, units, n, layers, dropped, top, graph, err, mvars>>

\* ------------------------------------------------------- the output head
\* line 82: `units` was never assigned
TopUnbound ==
    /\ pc = "top"
    /\ ~units.bound
    /\ Raise(Exc("UnboundLocalError", {}))
    /\ UNCHANGED <<cfg, gpu_present, attrs, placeholders, _xs_placeholders, _input_features,
                   features, units, n, layers, dropped, top, graph, mvars>>

\* line 162: the number of units of the extra dense layer, given the
\* n_hididden argument and the width of the tensor it is applied to
DenseUnitsA(n_hididden, in_width) == in_width
DenseUnits(n_hididden, in_width) == n_hididden

\* lines 82, 158-168
_build_top ==
    /\ pc = "top"
    /\ units.bound
    /\ LET n_hididden == Last(cfg.n_hidden_list)
           dense_out  == DenseUnits(n_hididden, units.width)
       IN  top' = [built      |-> TRUE,
                   in_width   |-> units.width,
                   n_hididden |-> n_hididden,
                   dense      |-> cfg.two_dense_on_top,
                   dense_in   |-> IF cfg.two_dense_on_top THEN units.width ELSE 0,
                   dense_out  |-> IF cfg.two_dense_on_top THEN dense_out ELSE 0,
                   logits     |-> cfg.n_tags]
    /\ graph' = graph \cup {"logits"}
                      \cup (IF cfg.top_dropout THEN {"top_dropout"} ELSE {})
                      \cup (IF cfg.two_dense_on_top THEN {"dense"} ELSE {})
    /\ pc' = "train_predict"
    /\ UNCHANGED <<cfg, gpu_present, attrs, placeholders, _xs_placeholders, _input_features,
                   features, units, n, layers, dropped, err, mvars>>

\* ------------------------------------------ objective, unpacking, session
\* line 190: `return train_op, loss,`
TrainPredictResult == <<"train_op", "loss">>

\* lines 84-86: the names the result is unpacked into
TrainPredictTargets == <<"train_op", "loss", "predict">>

\* lines 84-95, 170-190: the objective and the train op are built, the
\* result is unpacked (all targets or none), and when that succeeds
\* self.predict is bound and the session created.
_build_train_predict ==
    /\ pc = "train_predict"
    /\ LET built == graph \cup {"loss", "train_op"}
                          \cup (IF cfg.use_crf THEN {"crf_log_likelihood"}
                                               ELSE {"softmax_cross_entropy"})
                          \cup (IF cfg.l2_reg > 0 THEN {"l2_penalty"} ELSE {})
       IN  IF Len(TrainPredictResult) = Len(TrainPredictTargets)
           THEN /\ attrs' = attrs \cup {"train_op", "loss", "predict", "sess"}
                /\ graph' = built \cup {"session"}
                /\ pc' = "done"
                /\ err' = err
           ELSE /\ attrs' = attrs
                /\ graph' = built
                /\ Raise(Exc("ValueError", {}))
    /\ UNCHANGED <<cfg, gpu_present, placeholders, _xs_placeholders, _input_features,
                   features, units, n, layers, dropped, top, mvars>>

Next ==
    \/ _build_training_placeholders
    \/ _build_word_embeddings
    \/ _build_mask
    \/ _build_char_embeddings
    \/ SkipCharEmbeddings
    \/ _build_capitalization
    \/ SkipCapitalization
    \/ _build_pos
    \/ SkipPos
    \/ ConcatFeatures
    \/ RaiseCudnnL2
    \/ EnterCudnnRnn
    \/ CudnnNoGpu
    \/ CudnnGpuOk
    \/ CudnnWrongCell
    \/ CudnnLayer
    \/ EnterRnn
    \/ RnnWrongCell
    \/ RnnLayer
    \/ RnnReturn
    \/ _build_cnn
    \/ NoEncoder
    \/ TopUnbound
    \/ _build_top
    \/ _build_train_predict

Spec == Init /\ [][Next]_vars

Ended == pc \in {"raised", "done"}

TypeOK ==
    /\ cfg \in Configs
    /\ pc \in {"init", "word_embeddings", "mask", "char_embeddings", "capitalization", "pos",
               "concat", "encoder", "cudnn_check_gpu", "cudnn_loop", "rnn_loop", "top",
               "train_predict", "raised", "done"}
    /\ n \in 0..MaxLayers
    /\ Len(layers) <= MaxLayers

\* ------------------------------------------------------ instance methods
\* A mask row of padded length L and true length k: k ones, then zeros.
MaskRow(L, k) == [j \in 1..L |-> IF j <= k THEN 1 ELSE 0]

\* The masks of the batches: 1..MaxBatch rows of one padded length 1..MaxLen,
\* every example with at least one real token.
Batches ==
    UNION {[1..b -> {MaskRow(L, k) : k \in 1..L}] : b \in 1..MaxBatch, L \in 1..MaxLen}

ParamVersions == {0, 1}

\* A saved model handed to load: the GRAPH_PARAMS keys whose saved value
\* differs from the constructed model's, and the saved parameters.
SavedModels ==
    [differs : {{}} \cup {{k} : k \in GRAPH_PARAMS}, params : ParamVersions]

RECURSIVE Sum(_)
Sum(row) == IF row = <<>> THEN 0 ELSE row[1] + Sum(Tail(row))

\* tf.reduce_sum(mask, axis=1), line 172
sequence_lengths(m) == [i \in 1..Len(m) |-> Sum(m[i])]

\* A [batch, L] tensor with one value per position; the value at position j
\* is written j, so that a returned sequence tells which positions it holds.
PerPosition(m) == [i \in 1..Len(m) |-> [j \in 1..Len(m[i]) |-> j]]

\* tf.contrib.crf.viterbi_decode(score, trans_params): one tag per row of score
viterbi_decode(score) == score

\* line 202: logit[:int(sequence_length)]
Truncate(logit, sequence_length) == SubSeq(logit, 1, sequence_length)

\* lines 194-207: y_pred of predict_no_crf for the mask m of the batch
y_pred_of(use_crf, m) ==
    IF use_crf
    THEN LET logits == PerPosition(m)
             lens   == sequence_lengths(m)
         IN  [i \in 1..Len(m) |-> viterbi_decode(Truncate(logits[i], lens[i]))]
    ELSE PerPosition(m)

\* line 193: zip pairs the i-th placeholder with the i-th argument
feed_dict(xs, args) ==
    {<<xs[i], args[i]>> : i \in 1..(IF Len(xs) <= Len(args) THEN Len(xs) ELSE Len(args))}

InitMethods ==
    /\ cfg = [n_tags |-> 3, char_emb_dim |-> None, capitalization_dim |-> None,
              pos_features_dim |-> None, net_type |-> "rnn", cell_type |-> "lstm",
              use_cudnn_rnn |-> FALSE, two_dense_on_top |-> FALSE, n_hidden_list |-> <<1>>,
              use_crf |-> FALSE, top_dropout |-> FALSE, intra_layer_dropout |-> FALSE,
              l2_reg |-> 0]
    /\ gpu_present = FALSE
    /\ pc = "methods"
    /\ attrs = {}
    /\ placeholders = {}
    /\ _xs_placeholders = <<>>
    /\ _input_features = <<>>
    /\ features = 0
    /\ units = Unbound
    /\ n = 0
    /\ layers = <<>>
    /\ dropped = {}
    /\ top = NoTop
    /\ graph = {}
    /\ err = NoError
    /\ inst \in [_use_crf : BOOLEAN]
    /\ mask \in Batches
    /\ params = 0
    /\ opt_steps = 0
    /\ train_calls = 0
    /\ ncalls = 0
    /\ last_call = NoCall
    /\ checkpoint = {}

\* A call that returns `ret` without raising.
Returned(op, ret, y, differs, saved_params) ==
    /\ ncalls < MaxCalls
    /\ ncalls' = ncalls + 1
    /\ last_call' = [op |-> op, ret |-> ret, err |-> "none", y_pred |-> y,
                     differs |-> differs, saved_params |-> saved_params]

\* lines 192-207
predict_no_crf ==
    /\ Returned("predict_no_crf", "y_pred", y_pred_of(inst._use_crf, mask), {}, 0)
    /\ UNCHANGED <<cvars, inst, mask, params, opt_steps, train_calls, checkpoint>>

\* lines 211-212
__call__ ==
    /\ Returned("__call__", "None", <<>>, {}, 0)
    /\ UNCHANGED <<cvars, inst, mask, params, opt_steps, train_calls, checkpoint>>

\* lines 214-215
train_on_batch ==
    /\ Returned("train_on_batch", "None", <<>>, {}, 0)
    /\ train_calls' = train_calls + 1
    /\ UNCHANGED <<cvars, inst, mask, params, opt_steps, checkpoint>>

\* lines 217-218
save ==
    /\ Returned("save", "None", <<>>, {}, 0)
    /\ UNCHANGED <<cvars, inst, mask, params, opt_steps, train_calls, checkpoint>>

\* lines 220-221
load ==
    /\ \E saved \in SavedModels :
          Returned("load", "None", <<>>, saved.differs, saved.params)
    /\ UNCHANGED <<cvars, inst, mask, params, opt_steps, train_calls, checkpoint>>

NextMethods ==
    \/ predict_no_crf
    \/ __call__
    \/ train_on_batch
    \/ save
    \/ load

SpecMethods == InitMethods /\ [][NextMethods]_vars

\* ================================================================ claims

\* -- C1 (as claimed): when a recurrent builder has returned, it has applied
\* one layer per entry of n_hidden_list, in list order, and the returned
\* output is 2 x n_hidden_list[-1] wide.
C1_EveryLayerApplied ==
    (pc = "top" /\ cfg.net_type = "rnn") =>
        /\ layers = cfg.n_hidden_list
        /\ units.width = 2 * Last(cfg.n_hidden_list)

\* -- C2 (as claimed): predict returns one sequence per example, as long as
\* the sum of the example's mask row, holding no padding position.
C2_PredictTrueLengths ==
    (last_call.op = "predict_no_crf") =>
        /\ Len(last_call.y_pred) = Len(mask)
        /\ \A i \in 1..Len(mask) :
              /\ Len(last_call.y_pred[i]) = Sum(mask[i])
              /\ \A k \in 1..Len(last_call.y_pred[i]) : mask[i][last_call.y_pred[i][k]] = 1

\* The configurations section 6 of the documentation calls valid, on a
\* machine that can run them.
ValidConfig ==
    /\ cfg.net_type \in {"rnn", "cnn"}
    /\ cfg.cell_type \in {"lstm", "gru"}
    /\ cfg.use_cudnn_rnn => (gpu_present /\ cfg.l2_reg = 0)

\* -- C3 (as claimed): construction with a valid configuration completes,
\* and the model then holds a train op, a loss and a prediction path.
C3_ValidConstructionCompletes ==
    (Ended /\ ValidConfig) =>
        /\ pc = "done"
        /\ err = NoError
        /\ {"train_op", "loss", "predict"} \subseteq attrs

\* -- C4 (as claimed): load of a saved model whose GRAPH_PARAMS values differ
\* in at least one entry fails; load of one with identical GRAPH_PARAMS
\* restores the saved parameters.
C4_LoadChecksGraphParams ==
    (last_call.op = "load") =>
        /\ last_call.differs # {} => (last_call.err # "none" /\ params = 0)
        /\ last_call.differs = {} => params = last_call.saved_params

\* -- C5 (as claimed): every train_on_batch call executes exactly one
\* optimizer step and returns the loss of the batch.
C5_TrainStepsAndReturnsLoss ==
    /\ opt_steps = train_calls
    /\ (last_call.op = "train_on_batch") => last_call.ret = "loss"

CudnnRejected ==
    /\ cfg.net_type = "rnn"
    /\ cfg.use_cudnn_rnn
    /\ (cfg.l2_reg > 0 \/ ~gpu_present)

\* -- C6: with net_type 'rnn' and use_cudnn_rnn, whenever l2_reg > 0 or no
\* GPU is present the constructor never gets past the encoder dispatch: it
\* creates no recurrent layer, no output head, no train op and no session,
\* and it ends in an error; with l2_reg > 0 the error is the l2 Warning,
\* raised without the GPU being consulted.
C6_CudnnRejectedEarly ==
    CudnnRejected =>
        /\ pc \notin {"cudnn_loop", "rnn_loop", "top", "train_predict", "done"}
        /\ layers = <<>>
        /\ ~top.built
        /\ graph \cap {"rnn_layer", "stacked_cnn", "logits", "dense", "loss",
                       "train_op", "session"} = {}
        /\ Ended => err.type \in {"Warning", "RuntimeError"}
        /\ cfg.l2_reg > 0 => /\ pc # "cudnn_check_gpu"
                             /\ Ended => err.type = "Warning"
        /\ (cfg.l2_reg = 0 /\ Ended) => err.type = "RuntimeError"

\* The documentation's scenario: use_cudnn_rnn with l2_reg = 0.5 on a
\* CPU-only machine has ended in the Warning.
C6_Witness ==
    /\ pc = "raised"
    /\ CudnnRejected
    /\ cfg.l2_reg = 5
    /\ ~gpu_present
    /\ err.type = "Warning"

\* -- C7 (as claimed): with a net_type other than 'rnn' and 'cnn' the
\* constructor ends in an error naming the invalid net_type, before the
\* output head, the objective or the session is built.
C7_BadNetTypeNamed ==
    (Ended /\ cfg.net_type \notin {"rnn", "cnn"}) =>
        /\ pc = "raised"
        /\ "net_type" \in err.names
        /\ ~top.built
        /\ graph \cap {"logits", "loss", "train_op", "session"} = {}

\* The runtime inputs of a batch, in the documented order.
RuntimeInputs ==
    <<"token ids", "mask">>
        \o (IF cfg.char_emb_dim # None THEN <<"char ids">> ELSE <<>>)
        \o (IF cfg.capitalization_dim # None THEN <<"capitalization">> ELSE <<>>)
        \o (IF cfg.pos_features_dim # None THEN <<"POS">> ELSE <<>>)

\* The placeholder built for each modality.
PlaceholderOf(input) ==
    CASE input = "token ids"      -> "token_indices_ph"
      [] input = "mask"           -> "Mask_ph"
      [] input = "char ids"       -> "Char_ph"
      [] input = "capitalization" -> "Capitalization_ph"
      [] input = "POS"            -> "POS_ph"

\* -- C8 (as claimed): once the feature builders have run, the placeholder
\* list has one entry per activated builder, in order, and pairing the
\* runtime inputs with it feeds every input to its own placeholder.
C8_PlaceholdersMatchInputs ==
    (pc \notin {"init", "word_embeddings", "mask", "char_embeddings", "capitalization",
                "pos", "methods"}) =>
        /\ Len(_xs_placeholders) = Len(RuntimeInputs)
        /\ \A pair \in feed_dict(_xs_placeholders, RuntimeInputs) :
              pair[1] = PlaceholderOf(pair[2])

C10_NoDropoutAfterLastLayer ==
    (pc = "top" /\ cfg.net_type = "rnn") =>
        /\ ~units.intra_dropped
        /\ dropped = (IF cfg.intra_layer_dropout THEN 0..(Len(layers) - 2) ELSE {})

====
